---- MODULE Spec2Model ----
(***************************************************************************)
(* Model of biblioteca_maria_orm.py: the Record Store (LibroDBManager over *)
(* one SQLAlchemy session and the table 'libros'), the console controller  *)
(* (the menu sub-flows) and the table rendering.                           *)
(*                                                                         *)
(* Text is a sequence of one-character strings, so that LIKE matching,     *)
(* strip(), lower(), slicing and len() are computed on the characters.     *)
(* SQL NULL / Python None in a column is the one-element sequence NULL,    *)
(* which no text equals (its element is not a single character).           *)
(***************************************************************************)
EXTENDS Integers, Sequences, FiniteSets, TLC

VARIABLES
    db,         \* table 'libros': id -> [titulo, autor, genero, estado]
    auto_inc,   \* the table's AUTO_INCREMENT counter
    sesion,     \* state of self.session's transaction
    previo,     \* db as it was when the last Record Store call started
    ult,        \* the last Record Store call: arguments and outcome
    pc,         \* position of the console controller
    libro_id,   \* manejar_*: the id obtener_id_valido returned
    confirmacion, \* manejar_eliminar_libro: the confirmation as typed
    salida,     \* the last message the controller printed
    libros,     \* mostrar_libros_tabla: the list it was given
    tabla       \* mostrar_libros_tabla: what it printed

vars == <<db, auto_inc, sesion, previo, ult, pc, libro_id, confirmacion,
          salida, libros, tabla>>

\* Largest id the AUTO_INCREMENT counter hands out in the model.
MaxId == 2

NULL == <<"NULL">>
PyNone == "None"
PyTrue == "True"
PyFalse == "False"

ESTADOS_LECTURA ==
    << <<"L", "e", "í", "d", "o">>, <<"N", "o", " ", "l", "e", "í", "d", "o">> >>

Ids == 1..MaxId

Columnas == {"id", "titulo", "autor", "genero", "estado"}

----------------------------------------------------------------------------
(* Characters and text *)

\* str.lower() / SQL lower() on the characters the model uses.
Lower(c) ==
    CASE c = "A" -> "a"
      [] c = "B" -> "b"
      [] c = "S" -> "s"
      [] c = "N" -> "n"
      [] OTHER -> c

LowerStr(s) == [i \in 1..Len(s) |-> Lower(s[i])]

\* Rank of a character under the table's case-insensitive collation.
Rango(c) ==
    CASE Lower(c) = " " -> 0
      [] Lower(c) = "%" -> 1
      [] Lower(c) = "_" -> 2
      [] Lower(c) = "a" -> 3
      [] Lower(c) = "b" -> 4
      [] OTHER -> 5

\* a <= b in ORDER BY titulo.
RECURSIVE TituloMenorIgual(_, _)
TituloMenorIgual(a, b) ==
    IF a = <<>> THEN TRUE
    ELSE IF b = <<>> THEN FALSE
    ELSE IF Rango(Head(a)) < Rango(Head(b)) THEN TRUE
    ELSE IF Rango(Head(a)) > Rango(Head(b)) THEN FALSE
    ELSE TituloMenorIgual(Tail(a), Tail(b))

Fila(titulo, autor, genero, estado) ==
    [titulo |-> titulo, autor |-> autor, genero |-> genero, estado |-> estado]

----------------------------------------------------------------------------
(* The session and the database *)

Almacen(d, a, s) == [db |-> d, auto_inc |-> a, sesion |-> s]

\* NOT NULL columns of the table.
NoNulas == {"titulo", "autor", "estado"}

\* session.add(nuevo_libro); session.commit(): the INSERT and the COMMIT.
\* falla is what the server or the connection does to this commit.
CommitInsert(s, fila, falla) ==
    IF s.sesion # "activa" THEN
        [error |-> "PendingRollbackError", alm |-> s]
    ELSE IF falla # "ninguna" THEN
        [error |-> falla, alm |-> Almacen(s.db, s.auto_inc, "desactivada")]
    ELSE IF \E c \in NoNulas : fila[c] = NULL THEN
        [error |-> "IntegrityError",
         alm |-> Almacen(s.db, s.auto_inc, "desactivada")]
    ELSE IF s.auto_inc \in DOMAIN s.db THEN
        [error |-> "IntegrityError",
         alm |-> Almacen(s.db, s.auto_inc + 1, "desactivada")]
    ELSE
        [error |-> "ninguno",
         alm |-> Almacen(s.db @@ (s.auto_inc :> fila), s.auto_inc + 1, "activa")]

\* setattr(libro, campo, nuevo_valor); session.commit(): the UPDATE and COMMIT.
CommitUpdate(s, id, campo, valor, falla) ==
    IF s.sesion # "activa" THEN
        [error |-> "PendingRollbackError", alm |-> s]
    ELSE IF falla # "ninguna" THEN
        [error |-> falla, alm |-> Almacen(s.db, s.auto_inc, "desactivada")]
    ELSE IF campo \in NoNulas /\ valor = NULL THEN
        [error |-> "IntegrityError",
         alm |-> Almacen(s.db, s.auto_inc, "desactivada")]
    ELSE IF campo = "id" THEN
        IF valor # id /\ valor \in DOMAIN s.db THEN
            [error |-> "IntegrityError",
             alm |-> Almacen(s.db, s.auto_inc, "desactivada")]
        ELSE
            [error |-> "ninguno",
             alm |-> Almacen(
                 [k \in (DOMAIN s.db \ {id}) \cup {valor} |->
                     IF k = valor THEN s.db[id] ELSE s.db[k]],
                 s.auto_inc, "activa")]
    ELSE
        [error |-> "ninguno",
         alm |-> Almacen([s.db EXCEPT ![id][campo] = valor], s.auto_inc, "activa")]

\* A variant whose DELETE removes no row.
CommitDelete_sin_borrar(s, id, falla) ==
    IF s.sesion # "activa" THEN
        [error |-> "PendingRollbackError", alm |-> s]
    ELSE IF falla # "ninguna" THEN
        [error |-> falla, alm |-> Almacen(s.db, s.auto_inc, "desactivada")]
    ELSE
        [error |-> "ninguno", alm |-> Almacen(s.db, s.auto_inc, "activa")]

\* session.delete(libro); session.commit(): the DELETE and COMMIT.
CommitDelete(s, id, falla) ==
    IF s.sesion # "activa" THEN
        [error |-> "PendingRollbackError", alm |-> s]
    ELSE IF falla # "ninguna" THEN
        [error |-> falla, alm |-> Almacen(s.db, s.auto_inc, "desactivada")]
    ELSE
        [error |-> "ninguno",
         alm |-> Almacen([k \in DOMAIN s.db \ {id} |-> s.db[k]],
                         s.auto_inc, "activa")]

\* session.rollback()
Rollback(s) == Almacen(s.db, s.auto_inc, "activa")

----------------------------------------------------------------------------
(* LibroDBManager *)

\* What a call leaves and hands back: the store, the returned value(s), the
\* exception that left the method (if any), the error the commit met (if any).
Resultado(alm, ret, msg, exc, error) ==
    [alm |-> alm, ret |-> ret, msg |-> msg, exc |-> exc, error |-> error]

\* A variant that builds the Libro with titulo and autor exchanged.
insertar_libro_cruzado(s, titulo, autor, genero, estado, falla) ==
    LET c == CommitInsert(s, Fila(autor, titulo, genero, estado), falla)
    IN  IF c.error = "ninguno" THEN Resultado(c.alm, PyTrue, PyNone, "ninguna", c.error)
        ELSE IF c.error = "IntegrityError" THEN
            Resultado(Rollback(c.alm), PyFalse, PyNone, "ninguna", c.error)
        ELSE Resultado(c.alm, PyNone, PyNone, c.error, c.error)

insertar_libro(s, titulo, autor, genero, estado, falla) ==
    LET c == CommitInsert(s, Fila(titulo, autor, genero, estado), falla)
    IN  IF c.error = "ninguno" THEN Resultado(c.alm, PyTrue, PyNone, "ninguna", c.error)
        ELSE IF c.error = "IntegrityError" THEN
            Resultado(Rollback(c.alm), PyFalse, PyNone, "ninguna", c.error)
        ELSE Resultado(c.alm, PyNone, PyNone, c.error, c.error)

\* session.get(Libro, libro_id): <<row>>, or <<>> for None.
obtener_libro_por_id(s, id) ==
    IF id \in DOMAIN s.db THEN <<s.db[id]>> ELSE <<>>

\* A variant that reports success when no row has the id.
actualizar_libro_sin_fila(s, id, campo, nuevo_valor, falla) ==
    IF s.sesion # "activa" THEN
        Resultado(s, PyNone, PyNone, "PendingRollbackError", "ninguno")
    ELSE IF obtener_libro_por_id(s, id) = <<>> THEN
        Resultado(s, PyTrue, PyNone, "ninguna", "ninguno")
    ELSE
        LET c == CommitUpdate(s, id, campo, nuevo_valor, falla)
        IN  IF c.error = "ninguno" THEN
                Resultado(c.alm, PyTrue, PyNone, "ninguna", c.error)
            ELSE Resultado(Rollback(c.alm), PyFalse,
                           "Error al actualizar: " \o c.error, "ninguna", c.error)

\* A variant whose except branch returns no message.
actualizar_libro_sin_mensaje(s, id, campo, nuevo_valor, falla) ==
    IF s.sesion # "activa" THEN
        Resultado(s, PyNone, PyNone, "PendingRollbackError", "ninguno")
    ELSE IF obtener_libro_por_id(s, id) = <<>> THEN
        Resultado(s, PyFalse, "Libro no encontrado.", "ninguna", "ninguno")
    ELSE
        LET c == CommitUpdate(s, id, campo, nuevo_valor, falla)
        IN  IF c.error = "ninguno" THEN
                Resultado(c.alm, PyTrue, PyNone, "ninguna", c.error)
            ELSE Resultado(Rollback(c.alm), PyFalse, PyNone, "ninguna", c.error)

actualizar_libro(s, id, campo, nuevo_valor, falla) ==
    IF s.sesion # "activa" THEN Resultado(s, PyNone, PyNone, "PendingRollbackError", "ninguno")
    ELSE IF obtener_libro_por_id(s, id) = <<>> THEN
        Resultado(s, PyFalse, "Libro no encontrado.", "ninguna", "ninguno")
    ELSE
        LET c == CommitUpdate(s, id, campo, nuevo_valor, falla)
        IN  IF c.error = "ninguno" THEN Resultado(c.alm, PyTrue, PyNone, "ninguna", c.error)
            ELSE Resultado(Rollback(c.alm), PyFalse,
                           "Error al actualizar: " \o c.error, "ninguna", c.error)

eliminar_libro(s, id, falla) ==
    IF s.sesion # "activa" THEN Resultado(s, PyNone, PyNone, "PendingRollbackError", "ninguno")
    ELSE IF obtener_libro_por_id(s, id) = <<>> THEN
        Resultado(s, PyFalse, PyNone, "ninguna", "ninguno")
    ELSE
        LET c == CommitDelete(s, id, falla)
        IN  IF c.error = "ninguno" THEN Resultado(c.alm, PyTrue, PyNone, "ninguna", c.error)
            ELSE Resultado(Rollback(c.alm), PyFalse, PyNone, "ninguna", c.error)

\* Libro.to_dict()
to_dict(d, id) ==
    [id |-> id, titulo |-> d[id].titulo, autor |-> d[id].autor,
     genero |-> d[id].genero, estado |-> d[id].estado]

\* The orders ORDER BY titulo may return the rows ids in: every arrangement
\* that is ascending by title (rows with equal titles come in any order).
OrdenPorTitulo(d, ids) ==
    LET n == Cardinality(ids)
    IN  { q \in [1..n -> ids] :
            /\ \A i, j \in 1..n : i # j => q[i] # q[j]
            /\ \A i \in 1..(n - 1) :
                   TituloMenorIgual(d[q[i]].titulo, d[q[i + 1]].titulo) }

\* x LIKE patron: '%' matches any run of characters, '_' any one character.
RECURSIVE Like(_, _)
Like(x, patron) ==
    IF patron = <<>> THEN x = <<>>
    ELSE IF Head(patron) = "%" THEN
        \/ Like(x, Tail(patron))
        \/ x # <<>> /\ Like(Tail(x), patron)
    ELSE IF x = <<>> THEN FALSE
    ELSE IF Head(patron) = "_" THEN Like(Tail(x), Tail(patron))
    ELSE Head(x) = Head(patron) /\ Like(Tail(x), Tail(patron))

\* columna.ilike(patron): lower(columna) LIKE lower(patron); NULL matches nothing.
ilike(x, patron) ==
    IF x = NULL THEN FALSE ELSE Like(LowerStr(x), LowerStr(patron))

\* The ids of the rows buscar_libros selects.
buscar_libros(d, termino) ==
    LET termino_busqueda == <<"%">> \o termino \o <<"%">>
    IN  { id \in DOMAIN d :
            \/ ilike(d[id].titulo, termino_busqueda)
            \/ ilike(d[id].autor, termino_busqueda)
            \/ ilike(d[id].genero, termino_busqueda) }

Lista(d, q) == [i \in 1..Len(q) |-> to_dict(d, q[i])]

----------------------------------------------------------------------------
(* Console helpers and the table rendering *)

\* str.strip() for the blank the model types.
RECURSIVE LStrip(_)
LStrip(s) == IF s # <<>> /\ Head(s) = " " THEN LStrip(Tail(s)) ELSE s

RECURSIVE RStrip(_)
RStrip(s) ==
    IF s # <<>> /\ s[Len(s)] = " " THEN RStrip(SubSeq(s, 1, Len(s) - 1)) ELSE s

Strip(s) == RStrip(LStrip(s))

\* obtener_entrada on one typed line: <<>> makes it print its complaint
\* and prompt again.
obtener_entrada(linea) == Strip(linea)

Cifras == <<"0", "1", "2", "3", "4", "5", "6", "7", "8", "9">>

\* str(n) for n >= 0.
RECURSIVE Str(_)
Str(n) ==
    IF n < 10 THEN <<Cifras[n + 1]>>
    ELSE Str(n \div 10) \o <<Cifras[(n % 10) + 1]>>

EsEntero(s) ==
    s # <<>> /\ \A i \in 1..Len(s) : \E k \in 1..10 : Cifras[k] = s[i]

\* int(s) for a string of decimal digits.
RECURSIVE Int_(_)
Int_(s) ==
    IF s = <<>> THEN 0
    ELSE 10 * Int_(SubSeq(s, 1, Len(s) - 1))
         + ((CHOOSE k \in 1..10 : Cifras[k] = s[Len(s)]) - 1)

COL_ID == 5
COL_TITULO == 40
COL_AUTOR == 25
COL_GENERO == 15
COL_ESTADO == 12

\* (x[:ancho-3] + '...') if len(x) > ancho else x
Truncar(x, ancho) ==
    IF Len(x) > ancho THEN SubSeq(x, 1, ancho - 3) \o <<".", ".", ".">> ELSE x

\* f"{x:<{ancho}}": left-aligned, padded with blanks up to ancho, never cut.
Alinear(x, ancho) ==
    IF Len(x) >= ancho THEN x ELSE x \o [i \in 1..(ancho - Len(x)) |-> " "]

\* The five cells of one printed row.
FilaTabla(libro) ==
    [id |-> Alinear(Str(libro.id), COL_ID - 1),
     titulo |-> Alinear(Truncar(libro.titulo, COL_TITULO), COL_TITULO - 1),
     autor |-> Alinear(Truncar(libro.autor, COL_AUTOR), COL_AUTOR - 1),
     genero |-> Alinear(Truncar(libro.genero, COL_GENERO), COL_GENERO - 1),
     estado |-> Alinear(libro.estado, COL_ESTADO - 1)]

SinResultados == "No hay libros registrados o no se encontraron resultados."

\* What mostrar_libros_tabla prints: the message for an empty list, else the
\* rows in order. len(None) on an absent genre raises TypeError at that row.
mostrar_libros_tabla(ls) ==
    IF ls = <<>> THEN [mensaje |-> SinResultados, filas |-> <<>>, exc |-> "ninguna"]
    ELSE
        LET malas == {i \in 1..Len(ls) : ls[i].genero = NULL}
            k == IF malas = {} THEN Len(ls) + 1
                 ELSE CHOOSE i \in malas : \A j \in malas : i <= j
        IN  [mensaje |-> "",
             filas |-> [i \in 1..(k - 1) |-> FilaTabla(ls[i])],
             exc |-> IF malas = {} THEN "ninguna" ELSE "TypeError"]

----------------------------------------------------------------------------
(* State shared by the specifications *)

Actual == Almacen(db, auto_inc, sesion)

SinFila == Fila(<<>>, <<>>, <<>>, <<>>)

Llamada(op, id, campo, valor, fila, r, res) ==
    [op |-> op, id |-> id, campo |-> campo, valor |-> valor, fila |-> fila,
     ret |-> r.ret, msg |-> r.msg, exc |-> r.exc, error |-> r.error, res |-> res]

Lectura(x) == Resultado(Actual, PyNone, PyNone, "ninguna", "ninguno")

SinLlamada == Llamada("", 0, "", <<>>, SinFila, Lectura(<<>>), <<>>)

\* The store after a call, and the record of the call.
Tras(r, llamada) ==
    /\ db' = r.alm.db
    /\ auto_inc' = r.alm.auto_inc
    /\ sesion' = r.alm.sesion
    /\ previo' = db
    /\ ult' = llamada

InitComun ==
    /\ db = <<>>
    /\ auto_inc = 1
    /\ sesion = "activa"
    /\ previo = <<>>
    /\ ult = SinLlamada
    /\ libro_id = 0
    /\ confirmacion = <<>>
    /\ salida = ""
    /\ libros = <<>>
    /\ tabla = <<>>

----------------------------------------------------------------------------
(* The Record Store under any caller: every method, with any arguments.    *)
(* An exception that leaves a method ends the caller, as it ends main().   *)

\* What the server or the connection can do to a commit.
Fallas == {"ninguna", "OperationalError"}

Otro == <<"x">>

ValoresDe(campo) ==
    CASE campo = "id" -> Ids
      [] campo = "titulo" -> {NULL, <<>>, <<"a">>}
      [] campo = "autor" -> {NULL, <<"B">>}
      [] campo = "genero" -> {NULL, <<"a", "b">>}
      [] campo = "estado" -> {NULL, ESTADOS_LECTURA[1], Otro}

Terminos == {<<>>, <<"A">>, <<"b">>, <<"a", "B">>, <<"_">>, <<"%">>, <<"x">>}

ApiFin(r) == pc' = IF r.exc = "ninguna" THEN pc ELSE "terminado"

ApiInsertar ==
    /\ pc = "api"
    /\ auto_inc <= MaxId
    /\ \E titulo \in ValoresDe("titulo"), autor \in ValoresDe("autor"),
          genero \in ValoresDe("genero"), estado \in ValoresDe("estado"),
          falla \in Fallas :
          LET r == insertar_libro(Actual, titulo, autor, genero, estado, falla)
          IN  /\ Tras(r, Llamada("insertar_libro", 0, "", <<>>,
                                 Fila(titulo, autor, genero, estado), r, <<>>))
              /\ ApiFin(r)
    /\ UNCHANGED <<libro_id, confirmacion, salida, libros, tabla>>

ApiActualizar ==
    /\ pc = "api"
    /\ \E id \in Ids, campo \in Columnas, falla \in Fallas :
          \E nuevo_valor \in ValoresDe(campo) :
              LET r == actualizar_libro(Actual, id, campo, nuevo_valor, falla)
              IN  /\ Tras(r, Llamada("actualizar_libro", id, campo, nuevo_valor,
                                     SinFila, r, <<>>))
                  /\ ApiFin(r)
    /\ UNCHANGED <<libro_id, confirmacion, salida, libros, tabla>>

ApiEliminar ==
    /\ pc = "api"
    /\ \E id \in Ids, falla \in Fallas :
          LET r == eliminar_libro(Actual, id, falla)
          IN  /\ Tras(r, Llamada("eliminar_libro", id, "", <<>>, SinFila, r, <<>>))
              /\ ApiFin(r)
    /\ UNCHANGED <<libro_id, confirmacion, salida, libros, tabla>>

ApiObtenerPorId ==
    /\ pc = "api"
    /\ \E id \in Ids :
          Tras(Lectura(<<>>),
               Llamada("obtener_libro_por_id", id, "", <<>>, SinFila,
                       Lectura(<<>>), obtener_libro_por_id(Actual, id)))
    /\ UNCHANGED <<pc, libro_id, confirmacion, salida, libros, tabla>>

ApiObtenerTodos ==
    /\ pc = "api"
    /\ \E q \in OrdenPorTitulo(db, DOMAIN db) :
          Tras(Lectura(<<>>),
               Llamada("obtener_todos_los_libros", 0, "", <<>>, SinFila,
                       Lectura(<<>>), Lista(db, q)))
    /\ UNCHANGED <<pc, libro_id, confirmacion, salida, libros, tabla>>

ApiBuscar ==
    /\ pc = "api"
    /\ \E termino \in Terminos :
          \E q \in OrdenPorTitulo(db, buscar_libros(db, termino)) :
              Tras(Lectura(<<>>),
                   Llamada("buscar_libros", 0, "", termino, SinFila,
                           Lectura(<<>>), Lista(db, q)))
    /\ UNCHANGED <<pc, libro_id, confirmacion, salida, libros, tabla>>

Init == InitComun /\ pc = "api"

Next ==
    \/ ApiInsertar
    \/ ApiActualizar
    \/ ApiEliminar
    \/ ApiObtenerPorId
    \/ ApiObtenerTodos
    \/ ApiBuscar

Spec == Init /\ [][Next]_vars

----------------------------------------------------------------------------
(* The console controller: main() and the menu sub-flows, one step per     *)
(* line read (a sub-flow that reads several lines in a row with no store   *)
(* call in between reads them in one step).                                *)

LineasMenu == {<<"1">>, <<"2">>, <<" ", "3">>, <<"4">>, <<"5", " ">>, <<"6">>,
               <<"7">>, <<>>}
LineasTitulo == {<<"a">>, <<" ", "B">>}
LineasAutor == {<<"B", " ">>}
LineasGenero == {<<"B">>}
LineasEstado == {<<"1">>, <<" ", "2">>}
LineasTermino == {<<"A">>, <<"_">>, <<" ", "b">>}
LineasId == {<<>>, <<"x">>, <<" ", "1">>, <<"2">>, <<"3">>}
LineasOpcion == {<<"1">>, <<"2">>, <<"3">>, <<"4", " ">>, <<"5">>}
LineasValor == {<<" ", "B">>, <<" ">>}
Confirmaciones == {<<>>, <<"s">>, <<"S">>, <<"n">>, <<" ", "s">>, <<"s", " ">>}

Elegida(opcion) == \E linea \in LineasMenu : Strip(linea) = opcion

\* campos = {'1': 'titulo', '2': 'autor', '3': 'genero', '4': 'estado'}
campos ==
    (<<"1">> :> "titulo") @@ (<<"2">> :> "autor") @@ (<<"3">> :> "genero")
        @@ (<<"4">> :> "estado")

\* The state of the read loop on '1' / '2': the state chosen, <<>> to ask again.
EstadoElegido(estado_input) ==
    IF estado_input = <<"1">> THEN ESTADOS_LECTURA[1]
    ELSE IF estado_input = <<"2">> THEN ESTADOS_LECTURA[2]
    ELSE <<>>

\* An exception no handler catches ends main() with a traceback.
Fin(exc) == IF exc = "ninguna" THEN "menu" ELSE "terminado"

\* libros = db.obtener_todos_los_libros(); mostrar_libros_tabla(libros)
ListarYMostrar(q, sigue) ==
    LET ls == Lista(db, q)
        m == mostrar_libros_tabla(ls)
    IN  /\ Tras(Lectura(<<>>),
                Llamada("obtener_todos_los_libros", 0, "", <<>>, SinFila,
                        Lectura(<<>>), ls))
        /\ libros' = ls
        /\ tabla' = m.filas
        /\ salida' = IF m.exc = "ninguna" THEN m.mensaje ELSE m.exc
        /\ pc' = IF m.exc # "ninguna" THEN "terminado"
                 ELSE IF ls = <<>> THEN "menu" ELSE sigue

\* limpiar_pantalla(): what the last rendering printed is gone.
Limpiar == libros' = <<>> /\ tabla' = <<>>

\* A handler starts with its own locals; those of the last one are gone.
Locales == libro_id' = 0 /\ confirmacion' = <<>>

manejar_agregar_libro ==
    /\ pc = "menu"
    /\ Elegida(<<"1">>)
    /\ auto_inc <= MaxId
    /\ \E lt \in LineasTitulo, la \in LineasAutor, lg \in LineasGenero,
          le \in LineasEstado, falla \in Fallas :
          LET titulo == obtener_entrada(lt)
              autor == obtener_entrada(la)
              genero == obtener_entrada(lg)
              estado == EstadoElegido(obtener_entrada(le))
              r == insertar_libro(Actual, titulo, autor, genero, estado, falla)
          IN  /\ titulo # <<>> /\ autor # <<>> /\ genero # <<>> /\ estado # <<>>
              /\ Tras(r, Llamada("insertar_libro", 0, "", <<>>,
                                 Fila(titulo, autor, genero, estado), r, <<>>))
              /\ salida' =
                    IF r.exc # "ninguna" THEN r.exc
                    ELSE IF r.ret = PyTrue
                    THEN "Libro '{titulo}' de {autor} agregado exitosamente."
                    ELSE "Error al agregar el libro (posible duplicado o error de integridad)."
              /\ pc' = Fin(r.exc)
    /\ Limpiar
    /\ Locales

manejar_listado_libros ==
    /\ pc = "menu"
    /\ Elegida(<<"2">>)
    /\ \E q \in OrdenPorTitulo(db, DOMAIN db) : ListarYMostrar(q, "menu")
    /\ Locales

manejar_buscar_libros ==
    /\ pc = "menu"
    /\ Elegida(<<"3">>)
    /\ \E linea \in LineasTermino :
          LET termino == obtener_entrada(linea)
          IN  /\ termino # <<>>
              /\ \E q \in OrdenPorTitulo(db, buscar_libros(db, termino)) :
                    LET ls == Lista(db, q)
                        m == mostrar_libros_tabla(ls)
                    IN  /\ Tras(Lectura(<<>>),
                                Llamada("buscar_libros", 0, "", termino, SinFila,
                                        Lectura(<<>>), ls))
                        /\ libros' = ls
                        /\ tabla' = m.filas
                        /\ salida' = IF m.exc = "ninguna" THEN m.mensaje ELSE m.exc
                        /\ pc' = Fin(m.exc)
    /\ Locales

\* manejar_actualizar_libro up to the prompt for the id.
manejar_actualizar_libro ==
    /\ pc = "menu"
    /\ Elegida(<<"4">>)
    /\ \E q \in OrdenPorTitulo(db, DOMAIN db) : ListarYMostrar(q, "actualizar_id")
    /\ Locales

\* manejar_eliminar_libro up to the prompt for the id.
manejar_eliminar_libro ==
    /\ pc = "menu"
    /\ Elegida(<<"5">>)
    /\ \E q \in OrdenPorTitulo(db, DOMAIN db) : ListarYMostrar(q, "eliminar_id")
    /\ Locales

\* One turn of obtener_id_valido's loop: one line read.
obtener_id_valido ==
    /\ pc \in {"actualizar_id", "eliminar_id"}
    /\ \E linea \in LineasId :
          LET entrada == obtener_entrada(linea)
          IN  IF entrada = <<>> THEN
                  /\ salida' = "La entrada no puede estar vacía. Intente de nuevo."
                  /\ UNCHANGED <<db, auto_inc, sesion, previo, ult, pc, libro_id>>
              ELSE IF ~EsEntero(entrada) THEN
                  /\ salida' = "Por favor, ingrese un número entero válido para el ID."
                  /\ UNCHANGED <<db, auto_inc, sesion, previo, ult, pc, libro_id>>
              ELSE
                  LET id == Int_(entrada)
                      libro == obtener_libro_por_id(Actual, id)
                  IN  /\ Tras(Lectura(<<>>),
                              Llamada("obtener_libro_por_id", id, "", <<>>, SinFila,
                                      Lectura(<<>>), libro))
                      /\ IF libro # <<>> THEN
                             /\ libro_id' = id
                             /\ pc' = IF pc = "actualizar_id" THEN "actualizar_campo"
                                      ELSE "eliminar_confirmacion"
                             /\ salida' = IF pc = "actualizar_id"
                                          THEN "4. Estado de lectura"
                                          ELSE salida
                         ELSE
                             /\ salida' = "No se encontró ningún libro con el ID {libro_id}."
                             /\ UNCHANGED <<pc, libro_id>>
    /\ UNCHANGED <<confirmacion, libros, tabla>>

\* manejar_actualizar_libro from the choice of the field to its end.
actualizar_campo ==
    /\ pc = "actualizar_campo"
    /\ \E lo \in LineasOpcion, lv \in LineasValor \cup LineasEstado,
          falla \in Fallas :
          LET opcion == obtener_entrada(lo)
          IN  IF opcion \in DOMAIN campos THEN
                  LET campo_a_actualizar == campos[opcion]
                      nuevo_valor ==
                          IF campo_a_actualizar = "estado"
                          THEN EstadoElegido(obtener_entrada(lv))
                          ELSE obtener_entrada(lv)
                      r == actualizar_libro(Actual, libro_id, campo_a_actualizar,
                                            nuevo_valor, falla)
                  IN  /\ nuevo_valor # <<>>
                      /\ lv \in IF campo_a_actualizar = "estado" THEN LineasEstado
                                ELSE LineasValor
                      /\ Tras(r, Llamada("actualizar_libro", libro_id,
                                         campo_a_actualizar, nuevo_valor, SinFila,
                                         r, <<>>))
                      /\ salida' =
                            IF r.exc # "ninguna" THEN r.exc
                            ELSE IF r.ret = PyTrue
                            THEN "Libro ID {libro_id} actualizado exitosamente."
                            ELSE IF r.msg # PyNone /\ r.msg # ""
                            THEN "No se pudo actualizar el libro: " \o r.msg
                            ELSE "No se realizó ninguna actualización."
                      /\ pc' = Fin(r.exc)
              ELSE
                  /\ salida' = "Opción no válida."
                  /\ pc' = "menu"
                  /\ UNCHANGED <<db, auto_inc, sesion, previo, ult>>
    /\ UNCHANGED <<libro_id, confirmacion, libros, tabla>>

\* A variant that also strips the line before comparing it.
Confirmado_con_strip(linea) == LowerStr(Strip(linea)) = <<"s">>

\* confirmacion = input(...).lower(); if confirmacion == 's'
Confirmado(linea) == LowerStr(linea) = <<"s">>

\* manejar_eliminar_libro from the confirmation to its end.
eliminar_confirmacion ==
    /\ pc = "eliminar_confirmacion"
    /\ \E linea \in Confirmaciones, falla \in Fallas :
          /\ confirmacion' = linea
          /\ IF Confirmado(linea) THEN
                 LET r == eliminar_libro(Actual, libro_id, falla)
                 IN  /\ Tras(r, Llamada("eliminar_libro", libro_id, "", <<>>,
                                        SinFila, r, <<>>))
                     /\ salida' =
                           IF r.exc # "ninguna" THEN r.exc
                           ELSE IF r.ret = PyTrue
                           THEN "Libro ID {libro_id} eliminado exitosamente."
                           ELSE "Error al eliminar el libro o el ID no existe."
                     /\ pc' = Fin(r.exc)
             ELSE
                 /\ salida' = "Operación de eliminación cancelada."
                 /\ pc' = "menu"
                 /\ UNCHANGED <<db, auto_inc, sesion, previo, ult>>
    /\ UNCHANGED <<libro_id, libros, tabla>>

salir ==
    /\ pc = "menu"
    /\ Elegida(<<"6">>)
    /\ salida' = "¡Gracias por usar el Administrador de Biblioteca! Saliendo..."
    /\ pc' = "salir"
    /\ UNCHANGED <<db, auto_inc, sesion, previo, ult, libro_id, confirmacion,
                   libros, tabla>>

opcion_no_valida ==
    /\ pc = "menu"
    /\ \E linea \in LineasMenu :
          Strip(linea) \notin {<<"1">>, <<"2">>, <<"3">>, <<"4">>, <<"5">>, <<"6">>}
    /\ salida' = "Opción no válida. Por favor, ingrese un número del 1 al 6."
    /\ UNCHANGED <<db, auto_inc, sesion, previo, ult, pc, libro_id, confirmacion,
                   libros, tabla>>

InitConsola == InitComun /\ pc = "menu"

main ==
    \/ manejar_agregar_libro
    \/ manejar_listado_libros
    \/ manejar_buscar_libros
    \/ manejar_actualizar_libro
    \/ manejar_eliminar_libro
    \/ obtener_id_valido
    \/ actualizar_campo
    \/ eliminar_confirmacion
    \/ salir
    \/ opcion_no_valida

SpecConsola == InitConsola /\ [][main]_vars

----------------------------------------------------------------------------
(* The table rendering on its own: any list of books, then one rendering.  *)

Texto(n) == [i \in 1..n |-> Cifras[(i % 10) + 1]]

LibrosMuestra ==
    { [id |-> id, titulo |-> Texto(t), autor |-> Texto(a), genero |-> g,
       estado |-> e] :
        id \in {7, 99999, 100000}, t \in {COL_TITULO, COL_TITULO + 1},
        a \in {0, COL_AUTOR + 1},
        g \in {NULL, Texto(COL_GENERO), Texto(COL_GENERO + 1)},
        e \in {ESTADOS_LECTURA[2], Texto(COL_ESTADO + 1)} }

ListasMuestra ==
    {<<>>} \cup {<<l>> : l \in LibrosMuestra}
           \cup {<<l, m>> : l \in LibrosMuestra, m \in LibrosMuestra}

InitTabla ==
    /\ InitComun
    /\ pc = "tabla"
    /\ libros = <<>>

TablaRecibir ==
    /\ pc = "tabla"
    /\ libros' \in ListasMuestra
    /\ pc' = "recibida"
    /\ UNCHANGED <<db, auto_inc, sesion, previo, ult, libro_id, confirmacion,
                   salida, tabla>>

TablaMostrar ==
    /\ pc = "recibida"
    /\ LET m == mostrar_libros_tabla(libros)
       IN  /\ tabla' = m.filas
           /\ salida' = IF m.exc = "ninguna" THEN m.mensaje ELSE m.exc
    /\ pc' = "mostrada"
    /\ UNCHANGED <<db, auto_inc, sesion, previo, ult, libro_id, confirmacion,
                   libros>>

NextTabla == TablaRecibir \/ TablaMostrar

SpecTabla == InitTabla /\ [][NextTabla]_vars

----------------------------------------------------------------------------
(* Properties of the Record Store (Spec) *)

Mutadoras == {"insertar_libro", "actualizar_libro", "eliminar_libro"}

IdsDe(res) == {res[i].id : i \in 1..Len(res)}

\* C1: after insertar_libro returns True the store holds exactly one row more,
\* under an id no row had before; obtener_libro_por_id on that id returns the
\* title, author, genre and status that were passed; every earlier row is
\* unchanged.
C1_CrearLuegoObtener ==
    (ult.op = "insertar_libro" /\ ult.ret = PyTrue) =>
        \E id \in DOMAIN db \ DOMAIN previo :
            /\ DOMAIN db = DOMAIN previo \cup {id}
            /\ obtener_libro_por_id(Actual, id) = <<ult.fila>>
            /\ \A k \in DOMAIN previo : db[k] = previo[k]

\* A successful insert into a store that already held a row.
C1_Testigo ==
    /\ ult.op = "insertar_libro"
    /\ ult.ret = PyTrue
    /\ DOMAIN previo # {}
    /\ ult.fila.titulo # ult.fila.autor

\* C2: after actualizar_libro(id, campo, v) returns success, the row
\* obtener_libro_por_id(id) returns has v in the named field and every other
\* field, id included, as before; no other row changed.
C2_ActualizarUnCampo ==
    (ult.op = "actualizar_libro" /\ ult.ret = PyTrue) =>
        LET libro == obtener_libro_por_id(Actual, ult.id)
        IN  /\ libro # <<>>
            /\ IF ult.campo = "id" THEN ult.valor = ult.id
               ELSE libro[1][ult.campo] = ult.valor
            /\ \A c \in Columnas \ {"id", ult.campo} :
                   libro[1][c] = previo[ult.id][c]
            /\ DOMAIN db = DOMAIN previo
            /\ \A k \in DOMAIN previo \ {ult.id} : db[k] = previo[k]

\* C3: every persisted row has a non-empty title, a non-empty author and a
\* status among ESTADOS_LECTURA; an update of estado to a value outside
\* ESTADOS_LECTURA does not report success.
C3_Invariantes ==
    /\ \A id \in DOMAIN db :
           /\ db[id].titulo # <<>>
           /\ db[id].autor # <<>>
           /\ db[id].estado \in {ESTADOS_LECTURA[1], ESTADOS_LECTURA[2]}
    /\ (/\ ult.op = "actualizar_libro"
        /\ ult.campo = "estado"
        /\ ult.valor \notin {ESTADOS_LECTURA[1], ESTADOS_LECTURA[2]})
           => ult.ret # PyTrue

\* C4: a mutating call whose write or commit meets an error rolls back,
\* leaves the rows as they were, returns the failure value, lets no exception
\* out and leaves the session with nothing pending.
C4_ErrorRevierte ==
    (ult.op \in Mutadoras /\ ult.error # "ninguno") =>
        /\ ult.exc = "ninguna"
        /\ ult.ret = PyFalse
        /\ db = previo
        /\ sesion = "activa"

\* termino occurs in x as a literal substring, letter case ignored.
EsSubcadena(termino, x) ==
    /\ x # NULL
    /\ \E i \in 0..(Len(x) - Len(termino)) :
           LowerStr(SubSeq(x, i + 1, i + Len(termino))) = LowerStr(termino)

\* C5: buscar_libros returns exactly the rows in which the term occurs,
\* ignoring case, as a literal substring of title, author or genre ('%' and
\* '_' in the term included), sorted by title ascending.
C5_BusquedaLiteral ==
    ult.op = "buscar_libros" =>
        /\ IdsDe(ult.res) =
               { id \in DOMAIN db :
                   \/ EsSubcadena(ult.valor, db[id].titulo)
                   \/ EsSubcadena(ult.valor, db[id].autor)
                   \/ EsSubcadena(ult.valor, db[id].genero) }
        /\ \A i \in 1..(Len(ult.res) - 1) :
               TituloMenorIgual(ult.res[i].titulo, ult.res[i + 1].titulo)

\* C6: actualizar_libro and eliminar_libro on an id no row has return the
\* failure value (actualizar_libro with 'Libro no encontrado.') and leave
\* every row as it was.
C6_NoEncontrado ==
    (ult.op \in {"actualizar_libro", "eliminar_libro"}
        /\ ult.id \notin DOMAIN previo) =>
        /\ ult.exc = "ninguna"
        /\ ult.ret = PyFalse
        /\ ult.op = "actualizar_libro" => ult.msg = "Libro no encontrado."
        /\ ult.op = "eliminar_libro" => ult.msg = PyNone
        /\ db = previo

\* An update of an id no row has, in a store that holds a row.
C6_Testigo ==
    /\ ult.op = "actualizar_libro"
    /\ ult.id \notin DOMAIN previo
    /\ DOMAIN previo # {}
    /\ ult.error = "ninguno"

\* C7: after eliminar_libro(id) returns True, obtener_libro_por_id(id) is
\* None, no listing and no search returns the row, and every other row is
\* still there with the same fields.
C7_EliminarQuita ==
    (ult.op = "eliminar_libro" /\ ult.ret = PyTrue) =>
        /\ obtener_libro_por_id(Actual, ult.id) = <<>>
        /\ \A q \in OrdenPorTitulo(db, DOMAIN db) : ult.id \notin IdsDe(Lista(db, q))
        /\ \A termino \in Terminos :
               \A q \in OrdenPorTitulo(db, buscar_libros(db, termino)) :
                   ult.id \notin IdsDe(Lista(db, q))
        /\ \A k \in DOMAIN previo \ {ult.id} : k \in DOMAIN db /\ db[k] = previo[k]

\* A successful delete from a store that held another row too.
C7_Testigo ==
    /\ ult.op = "eliminar_libro"
    /\ ult.ret = PyTrue
    /\ DOMAIN previo \ {ult.id} # {}

----------------------------------------------------------------------------
(* Properties of the table rendering (SpecTabla) *)

Anchos ==
    [id |-> COL_ID, titulo |-> COL_TITULO, autor |-> COL_AUTOR,
     genero |-> COL_GENERO, estado |-> COL_ESTADO]

\* The text of a field as the table formats it.
TextoDe(libro, c) == IF c = "id" THEN Str(libro.id) ELSE libro[c]

\* C8: in every printed row and each of the five columns, a value longer than
\* the column's width is shown cut and ending in '...', a value that fits is
\* shown in full, and no cell is wider than its column.
C8_CeldasDentroDelAncho ==
    pc = "mostrada" =>
        \A i \in 1..Len(tabla) : \A c \in Columnas :
            LET v == TextoDe(libros[i], c)
                celda == tabla[i][c]
                w == Anchos[c]
            IN  /\ Len(v) > w =>
                       RStrip(celda) = SubSeq(v, 1, w - 3) \o <<".", ".", ".">>
                /\ Len(v) <= w => SubSeq(celda, 1, Len(v)) = v
                /\ Len(celda) <= w

----------------------------------------------------------------------------
(* Properties of the console controller (SpecConsola) *)

Cancelada == "Operación de eliminación cancelada."

\* manejar_eliminar_libro has just returned to the menu from its confirmation.
FinEliminar ==
    /\ pc = "menu"
    /\ salida \in {Cancelada, "Libro ID {libro_id} eliminado exitosamente.",
                   "Error al eliminar el libro o el ID no existe."}

\* C9 as stated: eliminar_libro is called only for an id the store holds and
\* after the confirmation 's'; after any other confirmation it is not called
\* and the rows are as before.
C9_SoloConS ==
    /\ ult.op = "eliminar_libro" =>
           /\ confirmacion = <<"s">>
           /\ ult.id = libro_id
           /\ libro_id \in DOMAIN previo
    /\ (FinEliminar /\ confirmacion # <<"s">>) =>
           /\ ult.op # "eliminar_libro"
           /\ db = previo

\* C9 amended: the confirmation is compared after lower() alone, so 's' and 'S'
\* confirm and every other line (empty, or with blanks around) cancels.
C9_SoloConSoS ==
    /\ ult.op = "eliminar_libro" =>
           /\ confirmacion \in {<<"s">>, <<"S">>}
           /\ ult.id = libro_id
           /\ libro_id \in DOMAIN previo
    /\ (FinEliminar /\ confirmacion \notin {<<"s">>, <<"S">>}) =>
           /\ ult.op # "eliminar_libro"
           /\ db = previo

\* The flow cancelled on a confirmation with a blank around the 's'.
C9_Testigo ==
    /\ FinEliminar
    /\ libro_id \in DOMAIN db
    /\ confirmacion = <<" ", "s">>

\* C10: actualizar_libro returns (True, None) or (False, a non-empty
\* message), never (False, None); the controller never prints
\* 'No se realizó ninguna actualización.'
C10_ParDeActualizar ==
    /\ (ult.op = "actualizar_libro" /\ ult.exc = "ninguna") =>
           \/ ult.ret = PyTrue /\ ult.msg = PyNone
           \/ ult.ret = PyFalse /\ ult.msg # PyNone /\ ult.msg # ""
    /\ salida # "No se realizó ninguna actualización."

\* An update that failed at commit and was reported with its message.
C10_Testigo ==
    /\ ult.op = "actualizar_libro"
    /\ ult.ret = PyFalse
    /\ salida = "No se pudo actualizar el libro: Error al actualizar: OperationalError"

====
